---- MODULE Spec2Model ----
(***************************************************************************)
(* State-machine model of hades/decomposers.py: the four decomposers       *)
(* EnergyImpactDecomposer, RandomSubproblemDecomposer, IdentityDecomposer  *)
(* and TilingChimeraDecomposer.  One behaviour constructs one decomposer   *)
(* over one quadratic model and then calls its iterate() repeatedly.       *)
(***************************************************************************)
EXTENDS Integers, Sequences, FiniteSets, TLC

\* ------------------------------------------------------------------ bounds
MaxVars == 3
MaxCalls == 4
MaxAdvances == 4
MaxConcurrentVars == 1

\* ------------------------------------------------- threads calling iterate
Threads == {"main", "other"}
Main == "main"

\* bqm        the caller's quadratic model, handed to the constructor
\* ctor       the constructor invocation made: class and arguments
\* self       the instance fields (cls = "none" while no instance exists);
\*            prev_vars is self._prev_vars
\* err        the exception raised by the constructor, or "none"
\* calls      iterate() calls made on a Random, Identity or Tiling instance
\* pc         per caller: "idle", "while" (at the loop test of line 47) or
\*            "selected" (past the loop, before line 53)
\* sample, variables, offset, next_vars
\*            per caller: the locals of EnergyImpactDecomposer.iterate
\* advances   per caller: executions of the loop body in the current call
\* result     per caller: outcome of the caller's latest finished call
\* stale      per caller: another caller has executed line 53 since this
\*            caller entered its current (or latest) call
VARIABLES bqm, ctor, self, err, calls, pc, sample, variables, offset,
          next_vars, advances, result, stale

vars == <<bqm, ctor, self, err, calls, pc, sample, variables, offset,
          next_vars, advances, result, stale>>

locals == <<sample, variables, offset, next_vars, advances>>

\* ------------------------------------------------------ small arithmetic
Abs(x) == IF x < 0 THEN -x ELSE x
Min(a, b) == IF a < b THEN a ELSE b
Max(a, b) == IF a > b THEN a ELSE b

RECURSIVE SumOver(_, _)
SumOver(S, f) ==
    IF S = {} THEN 0
    ELSE LET x == CHOOSE y \in S : TRUE
         IN f[x] + SumOver(S \ {x}, f)

Range(s) == {s[i] : i \in 1..Len(s)}

\* --------------------------------------------------------- quadratic model
\* A model over variables 1..n: linear bias v on variable v and a
\* coupling of -1 between v and v+1.
Vartypes == {"BINARY", "SPIN"}
Edges(n) == {{v, v + 1} : v \in 1..(n - 1)}
Model(n, vt) ==
    [vartype |-> vt,
     variables |-> 1..n,
     linear |-> [v \in 1..n |-> v],
     quadratic |-> [e \in Edges(n) |-> -1]]
Models == {Model(n, vt) : n \in 0..MaxVars, vt \in Vartypes}

\* len(bqm)
BqmLen(b) == Cardinality(b.variables)

\* values of a sample under each encoding
Values(vt) == IF vt = "SPIN" THEN {-1, 1} ELSE {0, 1}

\* SampleSet.change_vartype(vartype).first.sample on a one-sample set
ChangeVartype(svt, s, vt) ==
    IF svt = vt THEN s
    ELSE IF vt = "SPIN" THEN [v \in DOMAIN s |-> 2 * s[v] - 1]
    ELSE [v \in DOMAIN s |-> (s[v] + 1) \div 2]

\* neighbours of v in the model's interaction graph
Neighbours(b, v) == {u \in b.variables : {u, v} \in DOMAIN b.quadratic}

\* linear bias of v plus the contribution of the neighbours in U at sample s
Field(b, s, v, U) ==
    b.linear[v]
    + SumOver(Neighbours(b, v) \cap U,
              [u \in b.variables |->
                 IF {u, v} \in DOMAIN b.quadratic
                 THEN b.quadratic[{u, v}] * s[u] ELSE 0])

\* magnitude of the objective change when v is flipped at sample s
Impact(b, s, v) ==
    IF b.vartype = "SPIN"
    THEN Abs(2 * s[v] * Field(b, s, v, b.variables))
    ELSE Abs((1 - 2 * s[v]) * Field(b, s, v, b.variables))

\* descending by impact, ties by variable identifier
RankedBefore(imp, u, v) ==
    \/ imp[u] > imp[v]
    \/ imp[u] = imp[v] /\ u <= v

RECURSIVE RankSeq(_, _)
RankSeq(imp, S) ==
    IF S = {} THEN <<>>
    ELSE LET best == CHOOSE u \in S : \A v \in S : RankedBefore(imp, u, v)
         IN <<best>> \o RankSeq(imp, S \ {best})

\* select_localsearch_adversaries(bqm, sample, min_gain=...)
select_localsearch_adversaries(b, s, min_gain) ==
    LET imp == [v \in b.variables |-> Impact(b, s, v)]
    IN RankSeq(imp, {v \in b.variables : imp[v] > min_gain})

\* select_random_subgraph(bqm, n): the possible outcomes of one draw
select_random_subgraph(b, n) ==
    {S \in SUBSET b.variables : Cardinality(S) = n}

\* bqm_induced_by(bqm, variables, sample)
bqm_induced_by(b, V, s) ==
    LET S == V \cap b.variables
    IN [vartype |-> b.vartype,
        variables |-> V,
        linear |-> [v \in S |-> Field(b, s, v, b.variables \ S)],
        quadratic |-> [e \in {d \in DOMAIN b.quadratic : d \subseteq S}
                         |-> b.quadratic[e]]]

\* chimera_tiles(bqm, *size): tiles in traversal order, each an item
\* <<pos, embedding>>; a tile holds c consecutive variables and its
\* embedding maps each variable to its lattice index
LatticeBase == 100
TileCount(b, c) == (BqmLen(b) + c - 1) \div c
TileVars(b, c, k) == {v \in b.variables : (v - 1) \div c = k}
TileEmbedding(b, c, k) ==
    [v \in TileVars(b, c, k) |-> LatticeBase + ((v - 1) % c)]
chimera_tiles(b, c) ==
    [k \in 1..TileCount(b, c) |-> <<k - 1, TileEmbedding(b, c, k - 1)>>]

\* ----------------------------------------------------- Python primitives
\* list[start:stop] for integer start and stop
PyIndex(i, L) == IF i < 0 THEN Max(i + L, 0) ELSE Min(i, L)
PySlice(s, start, stop) ==
    LET lo == PyIndex(start, Len(s))
        hi == PyIndex(stop, Len(s))
    IN IF lo < hi THEN SubSeq(s, lo + 1, hi) ELSE <<>>

\* a ^ b on sets
SymDiff(A, B) == (A \ B) \cup (B \ A)

\* iter(seq)
Iter(items) == [kind |-> "iter", items |-> items, i |-> 0,
                saved |-> <<>>, j |-> 0]
\* itertools.cycle(it)
Cycle(it) == [it EXCEPT !.kind = "cycle"]

\* next(it) on an iterator that starts over once it is exhausted
IterNextRewind(it) ==
    IF it.i < Len(it.items)
    THEN [ok |-> TRUE, val |-> it.items[it.i + 1],
          it |-> [it EXCEPT !.i = it.i + 1]]
    ELSE [ok |-> FALSE, val |-> <<>>, it |-> [it EXCEPT !.i = 0]]

\* next(it) on a plain iterator: ok = FALSE is StopIteration
IterNext(it) ==
    IF it.i < Len(it.items)
    THEN [ok |-> TRUE, val |-> it.items[it.i + 1],
          it |-> [it EXCEPT !.i = it.i + 1]]
    ELSE [ok |-> FALSE, val |-> <<>>, it |-> it]

\* next(c) on a cycle object: elements of the inner iterator are saved as
\* they are produced and replayed once it is exhausted
CycleNext(c) ==
    LET r == IterNext(c)
    IN IF r.ok
       THEN [ok |-> TRUE, val |-> r.val,
             it |-> [r.it EXCEPT !.saved = Append(c.saved, r.val)]]
       ELSE IF c.saved = <<>>
       THEN [ok |-> FALSE, val |-> <<>>, it |-> c]
       ELSE [ok |-> TRUE, val |-> c.saved[c.j + 1],
             it |-> [c EXCEPT !.j = (c.j + 1) % Len(c.saved)]]

\* next(self.blocks) taken twice, the first item dropped
BlocksNextTwice(b) ==
    LET r == IF b.kind = "cycle" THEN CycleNext(b) ELSE IterNext(b)
    IN IF ~r.ok THEN r
       ELSE IF b.kind = "cycle" THEN CycleNext(r.it) ELSE IterNext(r.it)

\* next(self.blocks)
BlocksNext(b) == IF b.kind = "cycle" THEN CycleNext(b) ELSE IterNext(b)

\* --------------------------------------------------------------- results
EmptyBqm == [vartype |-> "BINARY", variables |-> {}, linear |-> <<>>,
             quadratic |-> <<>>]
NoResult == [status |-> "none", subproblem |-> EmptyBqm, embedding |-> <<>>]
\* state.updated(ctx=dict(subproblem=..., embedding=...))
Returned(sub, emb) ==
    [status |-> "returned", subproblem |-> sub, embedding |-> emb]
\* an exception leaving iterate()
Raised(e) == [status |-> e, subproblem |-> EmptyBqm, embedding |-> <<>>]

\* inputs of a call: the one-sample sample sets of encoding svt
Samples(b, svt) == [b.variables -> Values(svt)]

\* ------------------------------------------------------ input domains
Sizes == (-1)..(MaxVars + 1)
Counts == 0..(MaxVars + 1)
MinGains == {0, 1, 6}
Strides == {-1, 0, 1, 2}
TileSizes == {1, 2}

Init ==
    /\ bqm \in Models
    /\ ctor = [cls |-> "none"]
    /\ self = [cls |-> "none"]
    /\ err = "none"
    /\ calls = 0
    /\ pc = [t \in Threads |-> "idle"]
    /\ sample = [t \in Threads |-> <<>>]
    /\ variables = [t \in Threads |-> <<>>]
    /\ offset = [t \in Threads |-> 0]
    /\ next_vars = [t \in Threads |-> {}]
    /\ advances = [t \in Threads |-> 0]
    /\ result = [t \in Threads |-> NoResult]
    /\ stale = [t \in Threads |-> FALSE]

Unconstructed == ctor.cls = "none"

\* ------------------------------------------------ EnergyImpactDecomposer
\* the checks of __init__ with min_diff >= max_size rejected
EnergyImpactRaisesStrict(b, max_size, min_diff) ==
    \/ max_size > BqmLen(b)
    \/ min_diff >= max_size \/ min_diff < 0

\* the two checks of __init__
EnergyImpactRaises(b, max_size, min_diff) ==
    \/ max_size > BqmLen(b)
    \/ min_diff > max_size \/ min_diff < 0

EnergyImpactInit(max_size, min_gain, min_diff, stride) ==
    /\ Unconstructed
    /\ ctor' = [cls |-> "EnergyImpactDecomposer", max_size |-> max_size,
                min_gain |-> min_gain, min_diff |-> min_diff,
                stride |-> stride]
    /\ IF EnergyImpactRaises(bqm, max_size, min_diff)
       THEN /\ err' = "ValueError"
            /\ UNCHANGED self
       ELSE /\ self' = [cls |-> "EnergyImpactDecomposer", bqm |-> bqm,
                        max_size |-> max_size, min_gain |-> min_gain,
                        min_diff |-> min_diff, stride |-> stride,
                        prev_vars |-> {}]
            /\ UNCHANGED err
    /\ UNCHANGED <<stale, bqm, calls, pc, locals, result>>

\* line 49 with the stop of the slice left at max_size
WindowFixedStop(sf, vs, off) == Range(PySlice(vs, off, sf.max_size))

\* set(variables[offset : offset+self.max_size])
Window(sf, vs, off) == Range(PySlice(vs, off, off + sf.max_size))

\* line 47 with the threshold one too low
WhileCondOffByOne(sf, nv) ==
    Cardinality(SymDiff(nv, sf.prev_vars)) < sf.min_diff - 1

\* len(next_vars ^ self._prev_vars) < self.min_diff
WhileCond(sf, nv) == Cardinality(SymDiff(nv, sf.prev_vars)) < sf.min_diff

\* lines 41-46 with the offset of the previous call kept in place of 0
EnergyImpactEnterKeepOffset(t, svt, s) ==
    /\ self.cls = "EnergyImpactDecomposer"
    /\ pc[t] = "idle"
    /\ LET smp == ChangeVartype(svt, s, self.bqm.vartype)
           vs == select_localsearch_adversaries(self.bqm, smp, self.min_gain)
       IN /\ sample' = [sample EXCEPT ![t] = smp]
          /\ variables' = [variables EXCEPT ![t] = vs]
          /\ next_vars' = [next_vars EXCEPT
                             ![t] = Window(self, vs, offset[t])]
    /\ advances' = [advances EXCEPT ![t] = 0]
    /\ pc' = [pc EXCEPT ![t] = "while"]
    /\ stale' = [stale EXCEPT ![t] = FALSE]
    /\ UNCHANGED <<bqm, ctor, self, err, calls, result, offset>>

\* lines 41-46: read the sample, rank the variables, take the first window
EnergyImpactEnter(t, svt, s) ==
    /\ self.cls = "EnergyImpactDecomposer"
    /\ pc[t] = "idle"
    /\ LET smp == ChangeVartype(svt, s, self.bqm.vartype)
           vs == select_localsearch_adversaries(self.bqm, smp, self.min_gain)
       IN /\ sample' = [sample EXCEPT ![t] = smp]
          /\ variables' = [variables EXCEPT ![t] = vs]
          /\ offset' = [offset EXCEPT ![t] = 0]
          /\ next_vars' = [next_vars EXCEPT ![t] = Window(self, vs, 0)]
    /\ advances' = [advances EXCEPT ![t] = 0]
    /\ pc' = [pc EXCEPT ![t] = "while"]
    /\ stale' = [stale EXCEPT ![t] = FALSE]
    /\ UNCHANGED <<bqm, ctor, self, err, calls, result>>

\* lines 47-49: one iteration of the while loop
EnergyImpactAdvance(t) ==
    /\ pc[t] = "while"
    /\ WhileCond(self, next_vars[t])
    /\ advances[t] < MaxAdvances
    /\ offset' = [offset EXCEPT ![t] = offset[t] + self.stride]
    /\ next_vars' = [next_vars EXCEPT
                       ![t] = Window(self, variables[t],
                                     offset[t] + self.stride)]
    /\ advances' = [advances EXCEPT ![t] = advances[t] + 1]
    /\ UNCHANGED <<stale, bqm, ctor, self, err, calls, pc, sample, variables,
                   result>>

\* line 47: the loop condition is false
EnergyImpactExit(t) ==
    /\ pc[t] = "while"
    /\ ~WhileCond(self, next_vars[t])
    /\ pc' = [pc EXCEPT ![t] = "selected"]
    /\ UNCHANGED <<stale, bqm, ctor, self, err, calls, locals, result>>

\* lines 53-58 without the assignment of line 53
EnergyImpactReturnNoRecord(t) ==
    /\ pc[t] = "selected"
    /\ result' = [result EXCEPT
                    ![t] = Returned(bqm_induced_by(self.bqm, next_vars[t],
                                                   sample[t]), <<>>)]
    /\ pc' = [pc EXCEPT ![t] = "idle"]
    /\ stale' = [u \in Threads |->
                 stale[u] \/ (u # t /\ pc[u] # "idle")]
    /\ UNCHANGED <<bqm, ctor, self, err, calls, locals>>

\* lines 53-58: record the selection, induce the subproblem, return
EnergyImpactReturn(t) ==
    /\ pc[t] = "selected"
    /\ self' = [self EXCEPT !.prev_vars = next_vars[t]]
    /\ result' = [result EXCEPT
                    ![t] = Returned(bqm_induced_by(self.bqm, next_vars[t],
                                                   sample[t]), <<>>)]
    /\ pc' = [pc EXCEPT ![t] = "idle"]
    /\ stale' = [u \in Threads |->
                 stale[u] \/ (u # t /\ pc[u] # "idle")]
    /\ UNCHANGED <<bqm, ctor, err, calls, locals>>

\* -------------------------------------------- RandomSubproblemDecomposer
RandomRaises(b, size) == size > BqmLen(b)

RandomInit(size) ==
    /\ Unconstructed
    /\ ctor' = [cls |-> "RandomSubproblemDecomposer", size |-> size]
    /\ IF RandomRaises(bqm, size)
       THEN /\ err' = "ValueError"
            /\ UNCHANGED self
       ELSE /\ self' = [cls |-> "RandomSubproblemDecomposer", bqm |-> bqm,
                        size |-> size]
            /\ UNCHANGED err
    /\ UNCHANGED <<stale, bqm, calls, pc, locals, result>>

\* line 75 drawing len(self.bqm) variables in place of self.size
RandomVariablesAll(sf) == select_random_subgraph(sf.bqm, BqmLen(sf.bqm))

\* line 75: the possible values of `variables`
RandomVariables(sf) == select_random_subgraph(sf.bqm, sf.size)

\* iterate keeping the variables it drew on the instance
RandomIterateStateful(t, svt, s) ==
    /\ self.cls = "RandomSubproblemDecomposer"
    /\ pc[t] = "idle"
    /\ calls < MaxCalls
    /\ calls' = calls + 1
    /\ \E V \in RandomVariables(self) :
         LET smp == ChangeVartype(svt, s, self.bqm.vartype)
         IN /\ result' = [result EXCEPT
                            ![t] = Returned(bqm_induced_by(self.bqm, V, smp),
                                            <<>>)]
            /\ self' = [cls |-> self.cls, bqm |-> self.bqm,
                        size |-> self.size, prev_vars |-> V]
    /\ UNCHANGED <<stale, bqm, ctor, err, pc, locals>>

RandomIterate(t, svt, s) ==
    /\ self.cls = "RandomSubproblemDecomposer"
    /\ pc[t] = "idle"
    /\ calls < MaxCalls
    /\ calls' = calls + 1
    /\ \E V \in RandomVariables(self) :
         LET smp == ChangeVartype(svt, s, self.bqm.vartype)
         IN result' = [result EXCEPT
                         ![t] = Returned(bqm_induced_by(self.bqm, V, smp),
                                         <<>>)]
    /\ UNCHANGED <<stale, bqm, ctor, self, err, pc, locals>>

\* ---------------------------------------------------- IdentityDecomposer
IdentityInit ==
    /\ Unconstructed
    /\ ctor' = [cls |-> "IdentityDecomposer"]
    /\ self' = [cls |-> "IdentityDecomposer", bqm |-> bqm]
    /\ UNCHANGED <<stale, bqm, err, calls, pc, locals, result>>

\* line 90 returning the model stripped of its couplings
IdentitySubproblemLinearOnly(sf) == [sf.bqm EXCEPT !.quadratic = <<>>]

\* line 90: subproblem=self.bqm
IdentitySubproblem(sf) == sf.bqm

IdentityIterate(t) ==
    /\ self.cls = "IdentityDecomposer"
    /\ pc[t] = "idle"
    /\ calls < MaxCalls
    /\ calls' = calls + 1
    /\ result' = [result EXCEPT ![t] = Returned(IdentitySubproblem(self),
                                                <<>>)]
    /\ UNCHANGED <<stale, bqm, ctor, self, err, pc, locals>>

\* ----------------------------------------------- TilingChimeraDecomposer
\* lines 101-103, with loop ignored
TilingBlocksNoLoop(b, size, loop) == Iter(chimera_tiles(b, size))

\* lines 101-103, with every instance looping
TilingBlocksAlwaysLoop(b, size, loop) == Cycle(Iter(chimera_tiles(b, size)))

\* lines 101-103
TilingBlocks(b, size, loop) ==
    IF loop THEN Cycle(Iter(chimera_tiles(b, size)))
    ELSE Iter(chimera_tiles(b, size))

TilingChimeraInit(size, loop) ==
    /\ Unconstructed
    /\ ctor' = [cls |-> "TilingChimeraDecomposer", size |-> size,
                loop |-> loop]
    /\ self' = [cls |-> "TilingChimeraDecomposer", bqm |-> bqm,
                size |-> size, blocks |-> TilingBlocks(bqm, size, loop)]
    /\ UNCHANGED <<stale, bqm, err, calls, pc, locals, result>>

\* line 109 with embedding.values() in place of embedding.keys()
TilingVariablesValues(embedding) ==
    {embedding[v] : v \in DOMAIN embedding}

\* line 109: variables = embedding.keys()
TilingVariables(embedding) == DOMAIN embedding

TilingIterate(t, svt, s) ==
    /\ self.cls = "TilingChimeraDecomposer"
    /\ pc[t] = "idle"
    /\ calls < MaxCalls
    /\ calls' = calls + 1
    /\ LET r == BlocksNext(self.blocks)
       IN IF ~r.ok
          THEN /\ result' = [result EXCEPT ![t] = Raised("StopIteration")]
               /\ self' = [self EXCEPT !.blocks = r.it]
          ELSE LET embedding == r.val[2]
                   smp == ChangeVartype(svt, s, self.bqm.vartype)
                   subbqm == bqm_induced_by(self.bqm,
                                            TilingVariables(embedding), smp)
               IN /\ result' = [result EXCEPT
                                  ![t] = Returned(subbqm, embedding)]
                  /\ self' = [self EXCEPT !.blocks = r.it]
    /\ UNCHANGED <<stale, bqm, ctor, err, pc, locals>>

\* ------------------------------------------------------- specification
Construct ==
    \/ \E max_size \in Sizes, min_gain \in MinGains, min_diff \in Sizes,
          stride \in Strides :
         EnergyImpactInit(max_size, min_gain, min_diff, stride)
    \/ \E size \in Counts : RandomInit(size)
    \/ IdentityInit
    \/ \E size \in TileSizes, loop \in BOOLEAN : TilingChimeraInit(size, loop)

Call(t) ==
    \/ \E svt \in Vartypes : \E s \in Samples(bqm, svt) :
         EnergyImpactEnter(t, svt, s)
    \/ EnergyImpactAdvance(t)
    \/ EnergyImpactExit(t)
    \/ EnergyImpactReturn(t)
    \/ \E svt \in Vartypes : \E s \in Samples(bqm, svt) :
         RandomIterate(t, svt, s)
    \/ IdentityIterate(t)
    \/ \E svt \in Vartypes : \E s \in Samples(bqm, svt) :
         TilingIterate(t, svt, s)

\* calls on one instance are serialized: a single caller
Next == Construct \/ Call(Main)

Spec == Init /\ [][Next]_vars

\* calls on one instance made by two callers without synchronization, over
\* the models of at most MaxConcurrentVars variables
InitConcurrent == Init /\ BqmLen(bqm) <= MaxConcurrentVars

\* the energy-impact decomposer with min_gain and stride at their defaults
DefaultMinGain == 0
DefaultStride == 1
ConstructConcurrent ==
    \/ \E max_size \in Sizes, min_diff \in Sizes :
         EnergyImpactInit(max_size, DefaultMinGain, min_diff, DefaultStride)
    \/ \E size \in Counts : RandomInit(size)
    \/ IdentityInit
    \/ \E size \in TileSizes, loop \in BOOLEAN : TilingChimeraInit(size, loop)

NextConcurrent == ConstructConcurrent \/ \E t \in Threads : Call(t)
SpecConcurrent == InitConcurrent /\ [][NextConcurrent]_vars

\* ------------------------------------------------------------ properties
IsEnergyImpact == self.cls = "EnergyImpactDecomposer"
IsRandom == self.cls = "RandomSubproblemDecomposer"
IsIdentity == self.cls = "IdentityDecomposer"
IsTiling == self.cls = "TilingChimeraDecomposer"

\* the tiles of the constructed tiling decomposer, in traversal order
Tiles == chimera_tiles(bqm, ctor.size)

\* C1: a call of EnergyImpactDecomposer.iterate advances its offset at most
\* as many times as the ranked list is long, so the while loop ends; stated
\* for the positive strides, for which every advance uses up the list.
C1_BoundedAdvances ==
    \A t \in Threads :
       (IsEnergyImpact /\ self.stride >= 1) =>
          advances[t] <= Len(variables[t])

\* C2: a call that follows a returned call selects a set whose symmetric
\* difference with the earlier selection has at least min_diff elements,
\* unless the ranked list is too short for the window, and it returns: once
\* the ranked list is used up the loop advances no further (positive
\* strides).
C2_ConsecutiveDiffer ==
    (IsEnergyImpact /\ self.stride >= 1
        /\ result[Main].status = "returned") =>
       /\ pc[Main] = "selected" =>
             \/ Cardinality(SymDiff(next_vars[Main],
                                    result[Main].subproblem.variables))
                   >= self.min_diff
             \/ Len(variables[Main]) < offset[Main] + self.max_size
       /\ pc[Main] = "while" => advances[Main] <= Len(variables[Main])

\* C3: with loop=True and T >= 1 tiles the k-th call returns tile
\* (k-1) mod T of the traversal order, so call T+1 returns the first tile.
C3_LoopOrder ==
    (IsTiling /\ ctor.loop /\ Len(Tiles) >= 1 /\ calls >= 1) =>
       LET tile == Tiles[((calls - 1) % Len(Tiles)) + 1]
       IN /\ result[Main].status = "returned"
          /\ result[Main].embedding = tile[2]
          /\ result[Main].subproblem.variables = DOMAIN tile[2]

C3_Witness ==
    /\ IsTiling /\ ctor.loop /\ Len(Tiles) >= 2
    /\ calls = Len(Tiles) + 1
    /\ result[Main].status = "returned"
    /\ result[Main].embedding = Tiles[1][2]

\* C4: with loop=False and T tiles, call k <= T returns tile k-1 of the
\* traversal order and every call after the T-th raises StopIteration
\* without a subproblem.
C4_NoLoopOrder ==
    (IsTiling /\ ~ctor.loop /\ calls >= 1) =>
       IF calls <= Len(Tiles)
       THEN /\ result[Main].status = "returned"
            /\ result[Main].embedding = Tiles[calls][2]
            /\ result[Main].subproblem.variables = DOMAIN Tiles[calls][2]
       ELSE result[Main] = Raised("StopIteration")

C4_Witness ==
    /\ IsTiling /\ ~ctor.loop /\ Len(Tiles) >= 2
    /\ calls = Len(Tiles) + 1
    /\ result[Main].status = "StopIteration"

\* C5: constructing a TilingChimeraDecomposer over a model with zero tiles
\* fails with a configuration error and leaves no instance.
C5_ZeroTilesRejected ==
    (ctor.cls = "TilingChimeraDecomposer" /\ Len(Tiles) = 0) =>
       (err = "ValueError" /\ self.cls = "none")

C7_EmptyRankingReturns ==
    \A t \in Threads :
       (IsEnergyImpact /\ self.stride >= 1 /\ variables[t] = <<>>) =>
          /\ pc[t] = "while" => ~WhileCond(self, next_vars[t])
          /\ pc[t] = "selected" => next_vars[t] = {}

C9_SubproblemWithinModel ==
    \A t \in Threads :
       result[t].status = "returned" =>
          result[t].subproblem.variables \subseteq bqm.variables

C9_Witness ==
    /\ IsTiling
    /\ calls >= 2
    /\ result[Main].status = "returned"
    /\ result[Main].subproblem.variables # {}
    /\ result[Main].subproblem.variables # bqm.variables

\* C10: every call of IdentityDecomposer.iterate returns the whole model:
\* same variable set, same linear and quadratic coefficients.
C10_IdentityWholeModel ==
    \A t \in Threads :
       (IsIdentity /\ result[t].status # "none") =>
          /\ result[t].status = "returned"
          /\ result[t].subproblem.variables = bqm.variables
          /\ result[t].subproblem.linear = bqm.linear
          /\ result[t].subproblem.quadratic = bqm.quadratic
          /\ result[t].subproblem.vartype = bqm.vartype

C10_Witness ==
    /\ IsIdentity
    /\ calls >= 2
    /\ result[Main].status = "returned"
    /\ Cardinality(result[Main].subproblem.variables) >= 2

\* the elements of a ranked list at the 0-based positions a..b-1, a negative
\* bound counting from the end of the list
FromEnd(x, L) == IF x >= 0 THEN x ELSE IF x + L < 0 THEN 0 ELSE x + L
RankedSlice(vs, a, b) ==
    {vs[i] : i \in {j \in 1..Len(vs) :
                      FromEnd(a, Len(vs)) < j /\ j <= FromEnd(b, Len(vs))}}

\* C11: a call starts at offset 0 and moves in steps of stride; its window
\* is ranked[offset : offset+max_size], of at most max_size elements; every
\* earlier window was closer than min_diff to the previous selection and
\* the one selected is not; the selected window is what is returned; the
\* first call on a fresh instance with at least max_size ranked variables
\* selects the top max_size of them.
C11_SmallestOffset ==
    (IsEnergyImpact /\ pc[Main] \in {"while", "selected"}) =>
       LET vs == variables[Main]
           win(k) == RankedSlice(vs, k * self.stride,
                                 k * self.stride + self.max_size)
           far(W) == Cardinality(SymDiff(W, self.prev_vars)) >= self.min_diff
       IN /\ offset[Main] = advances[Main] * self.stride
          /\ next_vars[Main] = win(advances[Main])
          /\ Cardinality(next_vars[Main]) <= self.max_size
          /\ \A k \in 0..(advances[Main] - 1) : ~far(win(k))
          /\ pc[Main] = "selected" => far(next_vars[Main])
          /\ (result[Main].status = "none" /\ Len(vs) >= self.max_size) =>
                /\ advances[Main] = 0
                /\ next_vars[Main] = {vs[i] : i \in 1..self.max_size}

C11_Witness ==
    /\ IsEnergyImpact
    /\ pc[Main] = "selected"
    /\ result[Main].status = "returned"
    /\ advances[Main] >= 2
    /\ self.stride = 1
    /\ next_vars[Main] # {}

\* C12: _prev_vars is empty until a call returns and afterwards is exactly
\* the variable set of the subproblem of the latest returned call; the
\* other fields of the instance stay as the constructor set them.
C12_PrevVarsRecorded ==
    IsEnergyImpact =>
       /\ self.prev_vars = IF result[Main].status = "returned"
                           THEN result[Main].subproblem.variables
                           ELSE {}
       /\ self.bqm = bqm
       /\ self.max_size = ctor.max_size
       /\ self.min_gain = ctor.min_gain
       /\ self.min_diff = ctor.min_diff
       /\ self.stride = ctor.stride
       /\ DOMAIN self = {"cls", "bqm", "max_size", "min_gain", "min_diff",
                         "stride", "prev_vars"}

C12_Witness ==
    /\ IsEnergyImpact
    /\ pc[Main] = "idle"
    /\ result[Main].status = "returned"
    /\ advances[Main] >= 1
    /\ self.prev_vars # {}
    /\ self.prev_vars = result[Main].subproblem.variables

\* C13: a TilingChimeraDecomposer built with loop=True never raises from
\* iterate: every call returns a subproblem and an embedding.
C13_LoopNeverExhausted ==
    \A t \in Threads :
       (IsTiling /\ ctor.loop) => result[t].status \in {"none", "returned"}

\* the tile the cursor of self.blocks stands at: the number of items taken
\* from the tile list, or the replay position of a cycle
Cursor(b) == IF b.i < Len(b.items) THEN b.i ELSE b.j

\* C14: a returning call of TilingChimeraDecomposer.iterate returns the
\* embedding of the tile at the cursor together with the subproblem induced
\* over exactly that embedding's keys, the other variables fixed from a
\* sample, and moves the cursor on by one tile.
C14_TileStep ==
    [][(IsTiling /\ calls' = calls + 1
          /\ result'[Main].status = "returned") =>
         LET emb == result'[Main].embedding
             sub == result'[Main].subproblem
         IN /\ Cursor(self.blocks) < Len(Tiles)
            /\ emb = Tiles[Cursor(self.blocks) + 1][2]
            /\ sub.variables = DOMAIN emb
            /\ \E smp \in Samples(bqm, bqm.vartype) :
                  sub = bqm_induced_by(bqm, DOMAIN emb, smp)
            /\ IF ctor.loop
               THEN Cursor(self'.blocks)
                       = (Cursor(self.blocks) + 1) % Len(Tiles)
               ELSE self'.blocks.i = self.blocks.i + 1]_vars

C14_Witness ==
    /\ IsTiling
    /\ calls >= 2
    /\ Len(Tiles) >= 3
    /\ result[Main].status = "returned"
    /\ result[Main].embedding = Tiles[2][2]
    /\ Cursor(self.blocks) = 2

\* C18: once a call on a loop=False instance has raised StopIteration every
\* later call raises it too, with no subproblem and no embedding; the
\* cursor never moves back.
C18_ExhaustionPermanent ==
    [][(IsTiling /\ ~ctor.loop) =>
         /\ self'.blocks.i >= self.blocks.i
         /\ result[Main].status = "StopIteration" =>
               /\ result'[Main] = Raised("StopIteration")
               /\ self'.blocks = self.blocks]_vars

C18_Witness ==
    /\ IsTiling /\ ~ctor.loop
    /\ Len(Tiles) >= 1
    /\ calls >= Len(Tiles) + 2
    /\ result[Main] = Raised("StopIteration")

\* the selection a caller is about to record at line 53 differs from the
\* selection recorded last by at least min_diff variables
Diverse(t) ==
    Cardinality(SymDiff(next_vars[t], self.prev_vars)) >= self.min_diff

\* C15: with two unsynchronized callers, a caller that has left the loop
\* records a selection at least min_diff away from the one recorded last
\* provided no other caller recorded a selection during its call, which is
\* every call when calls are serialized; a caller overtaken by the other
\* one can record a selection closer than min_diff to the one recorded
\* just before it.
C15_DiverseUnlessOvertaken ==
    \A t \in Threads :
       (IsEnergyImpact /\ pc[t] = "selected" /\ ~stale[t]) => Diverse(t)

\* both callers have returned, the second one overtaken by the first, and
\* the two selections recorded one after the other are closer than min_diff
C15_Witness ==
    \E t \in Threads : \E u \in Threads \ {t} :
       /\ IsEnergyImpact
       /\ self.min_diff >= 1
       /\ pc[t] = "idle" /\ pc[u] = "idle"
       /\ result[t].status = "returned" /\ result[u].status = "returned"
       /\ stale[t]
       /\ self.prev_vars = result[t].subproblem.variables
       /\ Cardinality(SymDiff(result[t].subproblem.variables,
                              result[u].subproblem.variables))
             < self.min_diff

\* C16: a RandomSubproblemDecomposer or IdentityDecomposer holds after any
\* calls, concurrent ones included, exactly the fields its constructor set,
\* so every result is one of the results a first call could give: a
\* subproblem over size variables of the model, or the model itself.
C16_Stateless ==
    /\ IsRandom =>
          /\ self = [cls |-> "RandomSubproblemDecomposer", bqm |-> bqm,
                     size |-> ctor.size]
          /\ \A t \in Threads :
                result[t].status = "returned" =>
                   \E V \in select_random_subgraph(bqm, ctor.size) :
                      \E smp \in Samples(bqm, bqm.vartype) :
                         result[t].subproblem = bqm_induced_by(bqm, V, smp)
    /\ IsIdentity =>
          /\ self = [cls |-> "IdentityDecomposer", bqm |-> bqm]
          /\ \A t \in Threads :
                result[t].status = "returned" => result[t].subproblem = bqm

C16_Witness ==
    /\ IsRandom
    /\ calls >= 3
    /\ ctor.size >= 1
    /\ \A t \in Threads :
          /\ result[t].status = "returned"
          /\ Cardinality(result[t].subproblem.variables) = ctor.size

\* the selection fixed by the constructor arguments c over model b, the
\* sample smp and the previous selection prev: the first window of the
\* ranking of smp, in steps of stride, at least min_diff away from prev
Candidates(c, b, smp, prev) ==
    LET vs == select_localsearch_adversaries(b, smp, c.min_gain)
    IN [k \in 0..MaxAdvances |->
          RankedSlice(vs, k * c.stride, k * c.stride + c.max_size)]
Eligible(c, b, smp, prev) ==
    {k \in 0..MaxAdvances :
       Cardinality(SymDiff(Candidates(c, b, smp, prev)[k], prev))
          >= c.min_diff}

\* C17: the selection of a call is a function of the constructor arguments,
\* the model, the sample of the call and the previous selection alone, so
\* two instances built alike and fed the same samples select the same sets.
C17_Reproducible ==
    (IsEnergyImpact /\ pc[Main] = "selected") =>
       LET K == Eligible(ctor, bqm, sample[Main], self.prev_vars)
       IN /\ K # {}
          /\ \E k \in K :
                /\ \A j \in K : k <= j
                /\ next_vars[Main]
                      = Candidates(ctor, bqm, sample[Main],
                                   self.prev_vars)[k]

C17_Witness ==
    /\ IsEnergyImpact
    /\ pc[Main] = "selected"
    /\ result[Main].status = "returned"
    /\ offset[Main] >= 1
    /\ next_vars[Main] # {}
    /\ next_vars[Main] # self.prev_vars

====
